---- MODULE Spec2Model ----
(***************************************************************************)
(* SmartQuiz-AI: the MCQ format detector and parser of utils.py, the       *)
(* question normalizer of main.py, and the Streamlit application around    *)
(* them (load, upload, save, student grading).                             *)
(*                                                                         *)
(* A Python str is a sequence of one-character strings; positions are      *)
(* Python's (0-based), slices are half-open.  The alphabet is ASCII: the   *)
(* whitespace class \s is space, \n, \t, \r.  Every regular expression of  *)
(* the source is an operator giving what re gives on that alphabet,        *)
(* backtracking included.                                                  *)
(***************************************************************************)
EXTENDS Integers, Sequences, FiniteSets, TLC

VARIABLES
    text,       \* detector / parser input: [none : BOOLEAN, s : str]
    is_mcq,     \* detect_mcq(text), once computed
    parsed,     \* parse_mcqs(text), once computed
    rec,        \* normalizer input: a loosely typed question dict
    norm1,      \* normalize_question_obj(rec): [raised, q]
    norm2,      \* normalize_question_obj applied to norm1.q
    quizFile,   \* quizzes.json
    quizzes,    \* the in-memory quizzes list of main.py
    mcqs,       \* the upload tab's normalized questions
    attempt,    \* the attempt the last quiz submission recorded
    pc          \* position of the process the specification is about

vars == <<text, is_mcq, parsed, rec, norm1, norm2, quizFile, quizzes, mcqs, attempt, pc>>

(***************************************************************************)
(* Characters and Python str methods                                       *)
(***************************************************************************)
UpperLetters == <<"A","B","C","D","E","F","G","H","I","J","K","L","M",
                  "N","O","P","Q","R","S","T","U","V","W","X","Y","Z">>
LowerLetters == <<"a","b","c","d","e","f","g","h","i","j","k","l","m",
                  "n","o","p","q","r","s","t","u","v","w","x","y","z">>
UpperSet == {UpperLetters[i] : i \in 1..26}
LowerSet == {LowerLetters[i] : i \in 1..26}
DigitChars == <<"0","1","2","3","4","5","6","7","8","9">>
DigitSet == {DigitChars[i] : i \in 1..10}

ToLower == [c \in UpperSet |-> LowerLetters[CHOOSE i \in 1..26 : UpperLetters[i] = c]]
ToUpper == [c \in LowerSet |-> UpperLetters[CHOOSE i \in 1..26 : LowerLetters[i] = c]]

IsSpace(c) == c \in {" ", "\n", "\t", "\r"}
IsDigit(c) == c \in DigitSet
IsWordChar(c) == c \in UpperSet \/ c \in LowerSet \/ c \in DigitSet \/ c = "_"

lower_char(c) == IF c \in UpperSet THEN ToLower[c] ELSE c
upper_char(c) == IF c \in LowerSet THEN ToUpper[c] ELSE c
\* a list built by a comprehension, as the tuple of its items
list(f) == f \o <<>>
\* a local variable: the value is computed once and named in body
With(value, body(_)) == body(value)

lower(s) == list([i \in 1..Len(s) |-> lower_char(s[i])])
upper(s) == list([i \in 1..Len(s) |-> upper_char(s[i])])

\* ord(c) - 65 for an upper-case letter
ord65(c) == (CHOOSE i \in 1..26 : UpperLetters[i] = c) - 1
\* chr(65 + i)
chr65(i) == <<UpperLetters[i + 1]>>

\* s[i] with Python's 0-based index; "" (no character) past the end
At(s, i) == IF i >= 0 /\ i < Len(s) THEN s[i + 1] ELSE ""
\* s[a:b] for a >= 0: b is cut to len(s), and the slice is empty when b <= a
Slice(s, a, b) ==
    LET e == IF b > Len(s) THEN Len(s) ELSE b
    IN  IF e <= a THEN <<>> ELSE SubSeq(s, a + 1, e)

\* position after the longest run of whitespace from i: what \s* consumes
RECURSIVE SkipWs(_, _)
SkipWs(s, i) == IF i < Len(s) /\ IsSpace(s[i + 1]) THEN SkipWs(s, i + 1) ELSE i

\* position before the longest run of whitespace ending at j
RECURSIVE SkipWsBack(_, _)
SkipWsBack(s, j) == IF j > 0 /\ IsSpace(s[j]) THEN SkipWsBack(s, j - 1) ELSE j

\* s.strip()
strip(s) ==
    LET a == SkipWs(s, 0)
        b == SkipWsBack(s, Len(s))
    IN  Slice(s, a, b)

\* re.sub(r"\s+", " ", s): each run of whitespace becomes one space
collapse_ws(s) ==
    LET RunStart(i) == ~(IsSpace(s[i]) /\ i > 1 /\ IsSpace(s[i - 1]))
        keep == SelectSeq([i \in 1..Len(s) |-> i], RunStart)
    IN  [k \in 1..Len(keep) |-> IF IsSpace(s[keep[k]]) THEN " " ELSE s[keep[k]]]

\* whether sub occurs in s at position i
OccursAt(sub, s, i) ==
    /\ i >= 0
    /\ i + Len(sub) <= Len(s)
    /\ \A k \in 1..Len(sub) : s[i + k] = sub[k]

\* sub in s
contains(s, sub) == \E i \in 0..Len(s) : OccursAt(sub, s, i)

\* s.find(sub, from)
find(s, sub, from) ==
    IF \E i \in from..Len(s) : OccursAt(sub, s, i)
    THEN CHOOSE i \in from..Len(s) :
            /\ OccursAt(sub, s, i)
            /\ \A k \in from..(i - 1) : ~OccursAt(sub, s, k)
    ELSE -1

\* s.replace(old, new) for one-character old and new
replace_char(s, old, new) == [i \in 1..Len(s) |-> IF s[i] = old THEN new ELSE s[i]]

\* s with every character c removed
remove_char(s, c) ==
    LET Other(x) == x /= c
    IN  SelectSeq(s, Other)

\* s.split("\n")
RECURSIVE split_lines(_)
split_lines(s) ==
    With(find(s, <<"\n">>, 0), LAMBDA p :
        IF p = -1 THEN <<s>>
        ELSE <<Slice(s, 0, p)>> \o split_lines(Slice(s, p + 1, Len(s))))

\* sep.join(parts) with sep = "\n"
RECURSIVE join_lines(_)
join_lines(parts) ==
    IF parts = <<>> THEN <<>>
    ELSE IF Len(parts) = 1 THEN parts[1]
    ELSE parts[1] \o <<"\n">> \o join_lines(Tail(parts))

(***************************************************************************)
(* utils.py: detect_mcq                                                    *)
(***************************************************************************)
MIN_DETECT_LEN == 50

\* position after the longest run of digits from i: what \d+ consumes
RECURSIVE SkipDigits(_, _)
SkipDigits(s, i) == IF i < Len(s) /\ IsDigit(s[i + 1]) THEN SkipDigits(s, i + 1) ELSE i

\* re.search(r"Q\s*\d+", s, re.IGNORECASE)
pat_q_number(s) ==
    \E i \in 0..Len(s) : lower_char(At(s, i)) = "q" /\ IsDigit(At(s, SkipWs(s, i + 1)))

\* re.search(r"\d+\.", s, re.IGNORECASE)
pat_number_dot(s) ==
    \E i \in 0..Len(s) : IsDigit(At(s, i)) /\ At(s, SkipDigits(s, i)) = "."

\* re.search(r"[A-D][).]", s, re.IGNORECASE)
pat_option_label(s) ==
    \E i \in 0..Len(s) :
        lower_char(At(s, i)) \in {"a", "b", "c", "d"} /\ At(s, i + 1) \in {")", "."}

\* re.search(r"Answer\s*[:\-]", s, re.IGNORECASE)
pat_answer_label(s) ==
    \E i \in 0..Len(s) :
        /\ \A k \in 1..6 : lower_char(At(s, i + k - 1)) = <<"a","n","s","w","e","r">>[k]
        /\ At(s, SkipWs(s, i + 6)) \in {":", "-"}

\* any(re.search(p, text, re.IGNORECASE) for p in mcq_patterns)
any_mcq_pattern(s) ==
    pat_q_number(s) \/ pat_number_dot(s) \/ pat_option_label(s) \/ pat_answer_label(s)

\* a guard that rejects only the empty text: the length threshold taken away
too_short_empty_only(t) == t.none \/ t.s = <<>>

\* "not text or len(text.strip()) < 50"
too_short(t) == t.none \/ t.s = <<>> \/ Len(strip(t.s)) < MIN_DETECT_LEN

detect_mcq(t) == IF too_short(t) THEN FALSE ELSE any_mcq_pattern(t.s)

(***************************************************************************)
(* utils.py: parse_mcqs, segmentation (lines 71-116)                       *)
(***************************************************************************)
NA == <<"N", "/", "A">>
OptionLetters == {"A", "B", "C", "D"}
LabelSeparators == {")", ".", ":", "-"}

\* whether word occurs in s at i, ignoring case (word is lower-case)
OccursAtI(word, s, i) ==
    /\ i >= 0
    /\ i + Len(word) <= Len(s)
    /\ \A k \in 1..Len(word) : lower_char(s[i + k]) = word[k]

\* txt = re.sub(r"\*+", "", text.replace("\r", "\n"))
full_text(s) == remove_char(replace_char(s, "\r", "\n"), "*")

\* r"^\s*(?:Q\s*)?\d{1,3}[\).]" matched at i: the position after it, or -1
number_token(s, i) ==
    With(SkipWs(s, i), LAMBDA j1 :
    With(IF At(s, j1) = "Q" THEN SkipWs(s, j1 + 1) ELSE j1, LAMBDA j2 :
    With(SkipDigits(s, j2), LAMBDA j3 :
        IF j3 - j2 >= 1 /\ j3 - j2 <= 3 /\ At(s, j3) \in {")", "."} THEN j3 + 1 ELSE -1)))

\* the lookahead of header_re, [A-D][\).:] at e
option_label_ahead(s, e) == At(s, e) \in OptionLetters /\ At(s, e + 1) \in {")", ".", ":"}

\* header_re = r"(?m)^\s*(?:Q\s*)?(\d{1,3})[\).]\s*(?![A-D][\).:])" matched at i:
\* the end of the match, or -1.  The trailing \s* is greedy and gives back one
\* whitespace character when the lookahead rejects the position after it.
header_match(s, i) ==
    With(number_token(s, i), LAMBDA t :
    With(SkipWs(s, t), LAMBDA w :
        IF ~(i = 0 \/ At(s, i - 1) = "\n") \/ t = -1 THEN -1
        ELSE IF ~option_label_ahead(s, w) THEN w
        ELSE IF w > t THEN w - 1
        ELSE -1))

\* [m.start() for m in header_re.finditer(full)]: the leftmost match from the
\* end of the match before
header_starts(s) ==
    With({i \in 0..Len(s) : header_match(s, i) /= -1}, LAMBDA matches :
        LET scan[from \in 0..(Len(s) + 1)] ==
                With({i \in matches : i >= from}, LAMBDA rest :
                    IF rest = {} THEN <<>>
                    ELSE With(CHOOSE m \in rest : \A k \in rest : m <= k, LAMBDA i :
                         With(header_match(s, i), LAMBDA e :
                            <<i>> \o scan[IF e > i THEN e ELSE i + 1])))
        IN  scan[0])

QuestionWords ==
    { <<"w","h","a","t">>, <<"w","h","i","c","h">>, <<"w","h","o">>, <<"w","h","e","n">>,
      <<"w","h","e","r","e">>, <<"w","h","y">>, <<"h","o","w">> }

\* re.search(r"\b(what|which|who|when|where|why|how)\b", line, re.IGNORECASE)
has_question_word(line) ==
    \E i \in 0..Len(line) : \E w \in QuestionWords :
        /\ OccursAtI(w, line, i)
        /\ ~IsWordChar(At(line, i - 1))
        /\ ~IsWordChar(At(line, i + Len(w)))

\* "?" in line or a question word
question_like(line) == (\E i \in 1..Len(line) : line[i] = "?") \/ has_question_word(line)

\* r"\b[A-D][\).:\-]\s" matched at i
option_marker_at(s, i) ==
    /\ At(s, i) \in OptionLetters
    /\ ~IsWordChar(At(s, i - 1))
    /\ At(s, i + 1) \in LabelSeparators
    /\ IsSpace(At(s, i + 2))

\* re.search(r"\b[A-D][\).:\-]\s", block): its start, or -1
option_marker_pos(s) ==
    IF \E i \in 0..Len(s) : option_marker_at(s, i)
    THEN CHOOSE i \in 0..Len(s) :
            option_marker_at(s, i) /\ \A k \in 0..(i - 1) : ~option_marker_at(s, k)
    ELSE -1

\* lines 102-116: one block per header, up to the next header; a block whose
\* header line is not question-like and that holds no option marker is skipped
header_blocks(full) ==
    With(header_starts(full), LAMBDA hs :
        LET end(k) == IF k < Len(hs) THEN hs[k + 1] ELSE Len(full)
            block(k) == strip(Slice(full, hs[k], end(k)))
            header_line(k) ==
                With(find(full, <<"\n">>, hs[k]), LAMBDA nl :
                    strip(Slice(full, hs[k], IF nl /= -1 THEN nl ELSE end(k))))
            kept(k) == question_like(header_line(k)) \/ option_marker_pos(block(k)) /= -1
        IN  With(SelectSeq([k \in 1..Len(hs) |-> k], kept), LAMBDA ks :
                list([j \in 1..Len(ks) |-> block(ks[j])])))

\* re.match(r"^\s*\d+[\).]\s*", line)
starts_numbered(line) ==
    LET j == SkipWs(line, 0)
        d == SkipDigits(line, j)
    IN  d > j /\ At(line, d) \in {")", "."}

\* lines 87-99: without any header, split at the lines that start with a number
RECURSIVE group_lines(_, _)
group_lines(lines, cur) ==
    IF lines = <<>> THEN (IF cur = <<>> THEN <<>> ELSE <<join_lines(cur)>>)
    ELSE IF starts_numbered(Head(lines))
         THEN (IF cur = <<>> THEN <<>> ELSE <<join_lines(cur)>>)
              \o group_lines(Tail(lines), <<Head(lines)>>)
    ELSE group_lines(Tail(lines), Append(cur, Head(lines)))

NonBlank(l) == strip(l) /= <<>>
fallback_blocks(full) == group_lines(SelectSeq(split_lines(full), NonBlank), <<>>)

segment_blocks(full) ==
    IF header_starts(full) = <<>> THEN fallback_blocks(full) ELSE header_blocks(full)

(***************************************************************************)
(* utils.py: parse_mcqs, one block (lines 119-226)                         *)
(***************************************************************************)
MIN_BLOCK_LEN == 8
MIN_QUESTION_LEN == 6
NUM_OPTIONS == 4
DEDUP_KEY_LEN == 120

\* re.sub(r"^\s*(?:Q\s*)?\d{1,3}[\).]\s*", "", line)
strip_number(line) ==
    With(number_token(line, 0), LAMBDA t :
        IF t = -1 THEN line ELSE Slice(line, SkipWs(line, t), Len(line)))

\* lines 125-134: the header line without its number; when that is under 6
\* characters, everything before the first option marker instead
question_text(block) ==
    With(Head(split_lines(block)), LAMBDA first_line :
    With(strip(strip_number(first_line)), LAMBDA qtext :
    With(option_marker_pos(block), LAMBDA m :
        IF Len(qtext) < MIN_QUESTION_LEN /\ m /= -1
        THEN strip(strip_number(strip(Slice(block, 0, m))))
        ELSE qtext)))

\* opt_label_re = r"([A-Da-d])[\).:\-]" (IGNORECASE) matched at i
option_label_at(s, i) ==
    lower_char(At(s, i)) \in {"a", "b", "c", "d"} /\ At(s, i + 1) \in LabelSeparators

\* [m.start() for m in opt_label_re.finditer(block)]; a match is two characters
\* and no two overlap
label_positions(s) ==
    LET IsLabel(i) == option_label_at(s, i)
    IN  SelectSeq([k \in 1..Len(s) |-> k - 1], IsLabel)

AnswerWords == << <<"a","n","s","w","e","r">>, <<"a","n","s">>, <<"k","e","y">> >>

\* re.search(r"(?:Answer|Ans|Key)\s*[:\-]?", block, re.IGNORECASE).start(), or -1
ans_marker_pos(s) ==
    LET hit(i) == \E a \in 1..3 : OccursAtI(AnswerWords[a], s, i)
    IN  IF \E i \in 0..Len(s) : hit(i)
        THEN CHOOSE i \in 0..Len(s) : hit(i) /\ \A k \in 0..(i - 1) : ~hit(k)
        ELSE -1

\* re.sub(r"\s+", " ", t.strip()).strip()
clean(t) == strip(collapse_ws(strip(t)))

\* lines 142-154: the text after each label, up to the next label; the last
\* one up to the first answer marker of the block
span_options(block, labels) ==
    With(ans_marker_pos(block), LAMBDA ap :
    With(IF ap = -1 THEN Len(block) ELSE ap, LAMBDA ans_pos :
        list([j \in 1..Len(labels) |->
                clean(Slice(block, labels[j] + 2,
                            IF j < Len(labels) THEN labels[j + 1] ELSE ans_pos))])))

\* lines 157-162: re.match(r"^\s*([A-Da-d])[\).:\-]\s*(.*)", line) per line
line_options(block) ==
    LET IsOpt(l) == option_label_at(l, SkipWs(l, 0))
        rest(l) == clean(Slice(l, SkipWs(l, SkipWs(l, 0) + 2), Len(l)))
    IN  With(SelectSeq(split_lines(block), IsOpt), LAMBDA hits :
            list([j \in 1..Len(hits) |-> rest(hits[j])]))

extract_options(block) ==
    With(label_positions(block), LAMBDA labels :
        IF labels /= <<>> THEN span_options(block, labels) ELSE line_options(block))

\* the options cut to 4 and never padded
four_options_unpadded(options) ==
    list([j \in 1..(IF Len(options) < NUM_OPTIONS THEN Len(options) ELSE NUM_OPTIONS) |->
            options[j]])

\* lines 165-167: pad with "N/A" to 4, cut to 4
four_options(options) ==
    list([j \in 1..NUM_OPTIONS |-> IF j <= Len(options) THEN options[j] ELSE NA])

\* r"\s*[:\-]?\s*([A-Da-d])\b" matched at j0: the position of the letter, or -1
letter_after(s, j0) ==
    With(SkipWs(s, j0), LAMBDA j1 :
    With(IF At(s, j1) \in {":", "-"} THEN j1 + 1 ELSE j1, LAMBDA j2 :
    With(SkipWs(s, j2), LAMBDA j3 :
        IF lower_char(At(s, j3)) \in {"a", "b", "c", "d"} /\ ~IsWordChar(At(s, j3 + 1))
        THEN j3 ELSE -1)))

\* ans_letter_re = r"(?:Answer|Ans|Key)\s*[:\-]?\s*([A-Da-d])\b" (IGNORECASE)
\* matched at i: the position of group 1, or -1 (the alternatives in order)
ans_letter_at(s, i) ==
    LET try(a) == IF OccursAtI(AnswerWords[a], s, i)
                  THEN letter_after(s, i + Len(AnswerWords[a])) ELSE -1
    IN  With(try(1), LAMBDA r1 :
            IF r1 /= -1 THEN r1
            ELSE With(try(2), LAMBDA r2 : IF r2 /= -1 THEN r2 ELSE try(3)))

\* group 1 of the first match, upper-cased
first_answer_letter(block) ==
    With({i \in 0..Len(block) : ans_letter_at(block, i) /= -1}, LAMBDA starts :
        IF starts = {} THEN ""
        ELSE With(CHOOSE i \in starts : \A k \in starts : i <= k, LAMBDA first :
                upper_char(At(block, ans_letter_at(block, first)))))

\* lines 170-179: group 1 of the last match, upper-cased; "" without a match.
\* No match starts inside another, so the last match is the one that starts last.
last_answer_letter(block) ==
    With({i \in 0..Len(block) : ans_letter_at(block, i) /= -1}, LAMBDA starts :
        IF starts = {} THEN ""
        ELSE With(CHOOSE i \in starts : \A k \in starts : k <= i, LAMBDA last :
                upper_char(At(block, ans_letter_at(block, last)))))

\* r"\s*[:\-]?\s*(.+)" (DOTALL) matched at j0, to the end of s: group 1 stripped.
\* When the greedy prefix leaves nothing for (.+), the engine gives back the
\* last character consumed: a whitespace character, or the separator.
answer_group(s, j0) ==
    With(Len(s), LAMBDA n :
    With(SkipWs(s, j0), LAMBDA j1 :
    With(IF At(s, j1) \in {":", "-"} THEN j1 + 1 ELSE j1, LAMBDA j2 :
    With(SkipWs(s, j2), LAMBDA j3 :
        IF j3 < n THEN [found |-> TRUE, s |-> strip(Slice(s, j3, n))]
        ELSE IF j0 < n THEN [found |-> TRUE, s |-> strip(<<At(s, n - 1)>>)]
        ELSE [found |-> FALSE, s |-> <<>>]))))

\* ans_text_re = r"(?:Answer|Ans|Key)\s*[:\-]?\s*(.+)" matched at i
ans_text_at(s, i) ==
    LET try(a) == IF OccursAtI(AnswerWords[a], s, i)
                  THEN answer_group(s, i + Len(AnswerWords[a]))
                  ELSE [found |-> FALSE, s |-> <<>>]
    IN  With(try(1), LAMBDA r1 :
            IF r1.found THEN r1
            ELSE With(try(2), LAMBDA r2 : IF r2.found THEN r2 ELSE try(3)))

\* ans_text_re.search(block): m_alt.group(1).strip()
ans_text_search(block) ==
    With({i \in 0..Len(block) : ans_text_at(block, i).found}, LAMBDA hits :
        IF hits = {} THEN [found |-> FALSE, s |-> <<>>]
        ELSE ans_text_at(block, CHOOSE i \in hits : \A k \in hits : i <= k))

HereWords == { <<"h","e","r","e"," ","a","r","e">>, <<"h","e","r","e"," ","i","s">>,
               <<"h","e","r","e","'","s">> }

\* re.split(r"(?:Here are|Here is|Here\'s)", t, flags=re.IGNORECASE)[0]
before_here(t) ==
    LET hit(i) == \E w \in HereWords : OccursAtI(w, t, i)
    IN  IF \E i \in 0..Len(t) : hit(i)
        THEN Slice(t, 0, CHOOSE i \in 0..Len(t) : hit(i) /\ \A k \in 0..(i - 1) : ~hit(k))
        ELSE t

\* lines 186-189
answer_text(group) == collapse_ws(strip(before_here(group)))

\* line 195: a in b or b in a, lower-cased
fuzzy_match(ans, opt) ==
    With(lower(ans), LAMBDA a :
    With(lower(opt), LAMBDA o :
        contains(o, a) \/ contains(a, o)))

\* the first index of options (1-based) that satisfies P, or 0
FirstIndex(options, P(_)) ==
    IF \E i \in 1..Len(options) : P(options[i])
    THEN CHOOSE i \in 1..Len(options) :
            P(options[i]) /\ \A k \in 1..(i - 1) : ~P(options[k])
    ELSE 0

\* lines 182-199: the first real option the answer text matches (1-based), or 0
text_answer_index(block, options) ==
    With(ans_text_search(block), LAMBDA m :
    With(answer_text(m.s), LAMBDA ans :
        LET Matches(opt) == opt /= <<>> /\ opt /= NA /\ fuzzy_match(ans, opt)
        IN  IF m.found THEN FirstIndex(options, Matches) ELSE 0))

AllOfTheAbove == <<"a","l","l"," ","o","f"," ","t","h","e"," ","a","b","o","v","e">>

\* lines 202-207
all_above_index(options) ==
    LET Is(opt) == contains(lower(opt), AllOfTheAbove)
    IN  FirstIndex(options, Is)

\* lines 210-218: the first longest option that is neither empty nor "N/A"
\* (1-based); the first option when there is none
longest_index(options) ==
    LET real == {i \in 1..Len(options) : options[i] /= <<>> /\ options[i] /= NA}
    IN  IF real = {} THEN 1
        ELSE CHOOSE i \in real :
                /\ \A k \in real : Len(options[k]) <= Len(options[i])
                /\ \A k \in real : k < i => Len(options[k]) < Len(options[i])

\* lines 169-218: the record's correct letter and correct_index
resolve_answer(block, options) ==
    LET from_index(i) == [correct |-> chr65(i - 1), correct_index |-> i - 1]
    IN  With(last_answer_letter(block), LAMBDA letter :
        With(text_answer_index(block, options), LAMBDA by_text :
        With(all_above_index(options), LAMBDA by_all :
            IF letter /= "" /\ ord65(letter) >= 0 /\ ord65(letter) < Len(options)
            THEN [correct |-> <<letter>>, correct_index |-> ord65(letter)]
            ELSE IF by_text /= 0 THEN from_index(by_text)
            ELSE IF by_all /= 0 THEN from_index(by_all)
            ELSE from_index(longest_index(options)))))

\* lines 124-226
parse_block(block) ==
    With(four_options(extract_options(block)), LAMBDA options :
    With(resolve_answer(block, options), LAMBDA answer :
        [question |-> strip(collapse_ws(question_text(block))),
         options |-> options,
         correct |-> answer.correct,
         correct_index |-> answer.correct_index]))

\* line 121
block_too_short(block) == block = <<>> \/ Len(strip(block)) < MIN_BLOCK_LEN

\* line 232
dedup_key(question) == Slice(question, 0, DEDUP_KEY_LEN)

\* lines 229-238
RECURSIVE filter_final(_, _)
filter_final(qs, seen) ==
    IF qs = <<>> THEN <<>>
    ELSE With(Head(qs), LAMBDA q :
         With(dedup_key(q.question), LAMBDA key :
            IF Len(q.question) < MIN_QUESTION_LEN \/ key \in seen
            THEN filter_final(Tail(qs), seen)
            ELSE <<q>> \o filter_final(Tail(qs), seen \cup {key})))

parse_mcqs(t) ==
    IF t.none \/ t.s = <<>> THEN <<>>
    ELSE LET Long(b) == ~block_too_short(b)
         IN  With(SelectSeq(segment_blocks(full_text(t.s)), Long), LAMBDA kept :
                filter_final(list([k \in 1..Len(kept) |-> parse_block(kept[k])]), {}))

(***************************************************************************)
(* main.py: normalize_question_obj (lines 62-113)                          *)
(*                                                                         *)
(* A JSON value is [t, s, n]: t is "absent" (no such key), "null", "str"   *)
(* (s, a str) or "int" (n).  A question dict has a question, options       *)
(* ([t, v]: absent, or a list of values), correct and correct_index.       *)
(***************************************************************************)
Absent == [t |-> "absent", s |-> <<>>, n |-> 0]
Null == [t |-> "null", s |-> <<>>, n |-> 0]
StrV(s) == [t |-> "str", s |-> s, n |-> 0]
IntV(n) == [t |-> "int", s |-> <<>>, n |-> n]
NoList == [t |-> "absent", v |-> <<>>]
ListV(v) == [t |-> "list", v |-> v]

MAX_INDEX == 3
\* no value: Python's None for corr_idx
NONE == -1

\* "o or ''" raises in re.sub when o is a number other than 0
option_raises(o) == o.t = "int" /\ o.n /= 0

\* re.sub(r'\s+', ' ', (o or "")).strip()
option_text(o) == strip(collapse_ws(IF o.t = "str" THEN o.s ELSE <<>>))

\* lines 64-68: the cleaned options, padded with "N/A" to 4 and cut to 4
normal_options(options) ==
    LET v == IF options.t = "list" THEN options.v ELSE <<>>
    IN  list([j \in 1..NUM_OPTIONS |-> IF j <= Len(v) THEN option_text(v[j]) ELSE NA])

\* the value of a string of digits
digits_value(d) ==
    LET val[k \in 0..Len(d)] ==
            IF k = 0 THEN 0
            ELSE 10 * val[k - 1] + ((CHOOSE i \in 1..10 : DigitChars[i] = d[k]) - 1)
    IN  val[Len(d)]

\* int(x): [ok, n]; a str is stripped, then an optional sign and digits
to_int(x) ==
    With(strip(x.s), LAMBDA t :
    With(t /= <<>> /\ t[1] \in {"-", "+"}, LAMBDA signed :
    With(IF signed THEN Tail(t) ELSE t, LAMBDA d :
    With(d /= <<>> /\ \A k \in 1..Len(d) : IsDigit(d[k]), LAMBDA numeric :
        IF x.t = "int" THEN [ok |-> TRUE, n |-> x.n]
        ELSE IF x.t = "str" /\ numeric
             THEN [ok |-> TRUE, n |-> IF signed /\ t[1] = "-" THEN 0 - digits_value(d)
                                      ELSE digits_value(d)]
        ELSE [ok |-> FALSE, n |-> 0]))))

\* the supplied correct_index read as a position counted from 1
supplied_index_one_based(ci, len) ==
    With(to_int(ci), LAMBDA i :
        IF ci.t \in {"absent", "null"} \/ ~i.ok THEN NONE
        ELSE IF i.n < 1 \/ i.n > len THEN 0
        ELSE i.n - 1)

\* lines 72-81: the supplied correct_index; out of range is 0, not a number is None
supplied_index(ci, len) ==
    With(to_int(ci), LAMBDA i :
        IF ci.t \in {"absent", "null"} \/ ~i.ok THEN NONE
        ELSE IF i.n < 0 \/ i.n >= len THEN 0
        ELSE i.n)

\* "corr and isinstance(corr, str)"
is_text(corr) == corr.t = "str" /\ corr.s /= <<>>

\* re.search(r'([A-Da-d])', corr): the index of the first such letter, or None
letter_index(corr) ==
    With({k \in 1..Len(corr.s) : lower_char(corr.s[k]) \in {"a", "b", "c", "d"}}, LAMBDA hits :
        IF is_text(corr) /\ hits /= {}
        THEN With(CHOOSE k \in hits : \A m \in hits : k <= m, LAMBDA first :
                ord65(upper_char(corr.s[first])))
        ELSE NONE)

\* lines 97-108: the first option that contains corr or is contained in it
inferred_index(corr, options) ==
    With(strip(corr.s), LAMBDA c :
        LET Matches(opt) == fuzzy_match(c, opt)
        IN  With(FirstIndex(options, Matches), LAMBDA i :
                IF is_text(corr) /\ Len(c) > 1 /\ i /= 0 THEN i - 1 ELSE 0))

\* lines 70-110
resolve_index(corr, ci, options) ==
    With(supplied_index(ci, Len(options)), LAMBDA supplied :
    With(letter_index(corr), LAMBDA by_letter :
    With(IF by_letter /= NONE THEN by_letter
         ELSE IF supplied /= NONE THEN supplied
         ELSE inferred_index(corr, options), LAMBDA idx :
        IF idx < 0 THEN 0 ELSE IF idx > MAX_INDEX THEN MAX_INDEX ELSE idx)))

\* line 112: q.get("correct", chr(65 + corr_idx)).upper()
final_correct(corr, idx) == IF corr.t = "absent" THEN StrV(chr65(idx)) ELSE StrV(upper(corr.s))

\* line 112 raises AttributeError when correct is there and is not a str
correct_raises(corr) == corr.t \in {"null", "int"}

\* the dict after the call, and whether the call raised
normalize_question_obj(q) ==
    With(normal_options(q.options), LAMBDA options :
    With(resolve_index(q.correct, q.correct_index, options), LAMBDA idx :
    With([q EXCEPT !.options = ListV(list([j \in 1..Len(options) |-> StrV(options[j])])),
                   !.correct_index = IntV(idx)], LAMBDA set :
        IF q.options.t = "list" /\ \E j \in 1..Len(q.options.v) : option_raises(q.options.v[j])
        THEN [raised |-> TRUE, q |-> q]
        ELSE IF correct_raises(q.correct) THEN [raised |-> TRUE, q |-> set]
        ELSE [raised |-> FALSE, q |-> [set EXCEPT !.correct = final_correct(q.correct, idx)]])))

(***************************************************************************)
(* utils.py: generate_mcqs_via_openai (lines 246-304).  The reply of the   *)
(* service is an input: [ok, questions], ok FALSE when there is no key,    *)
(* the request fails or the reply is not JSON.  A generated question has   *)
(* a question value, options and correct.                                  *)
(***************************************************************************)
\* lines 283, 286, 295: what raises inside the try
generated_raises(q) ==
    \/ q.options.t = "list" /\ \E j \in 1..Len(q.options.v) : option_raises(q.options.v[j])
    \/ q.correct.t = "int" /\ q.correct.n /= 0
    \/ q.question.t \in {"null", "int"}

\* lines 283-285, 296
generated_options(options) ==
    LET v == IF options.t = "list" THEN options.v ELSE <<>>
    IN  list([j \in 1..NUM_OPTIONS |-> IF j <= Len(v) THEN option_text(v[j]) ELSE NA])

\* lines 286-293: the first A-D letter of (correct or "A"), index 0 without one
generated_index(corr) ==
    With(letter_index(corr), LAMBDA i : IF i = NONE THEN 0 ELSE i)

\* lines 294-299
generated_question(q) ==
    With(generated_index(q.correct), LAMBDA idx :
    With(generated_options(q.options), LAMBDA opts :
        [question |-> strip(q.question.s),
         options |-> ListV(list([j \in 1..Len(opts) |-> StrV(opts[j])])),
         correct |-> StrV(chr65(idx)),
         correct_index |-> IntV(IF idx > MAX_INDEX THEN MAX_INDEX ELSE idx)]))

generate_mcqs_via_openai(reply) ==
    IF ~reply.ok \/ \E k \in 1..Len(reply.questions) : generated_raises(reply.questions[k])
    THEN <<>>
    ELSE list([k \in 1..Len(reply.questions) |-> generated_question(reply.questions[k])])

(***************************************************************************)
(* main.py: the application.  Streamlit runs the script once per           *)
(* interaction: every run loads quizzes.json and normalizes it in memory   *)
(* (lines 123-125), then serves the panel that was acted on.  An exception *)
(* ends the run.                                                           *)
(***************************************************************************)
\* a record of parse_mcqs as the dict main.py receives
as_dict(q) ==
    [question |-> q.question,
     options |-> ListV(list([j \in 1..Len(q.options) |-> StrV(q.options[j])])),
     correct |-> StrV(q.correct),
     correct_index |-> IntV(q.correct_index)]

\* the quiz left as it is stored
normalize_quiz_in_memory_skipped(quiz) == [raised |-> FALSE, quiz |-> quiz]

\* lines 115-120; an exception leaves the run, and the quiz is not read again
normalize_quiz_in_memory(quiz) ==
    With(list([j \in 1..Len(quiz.questions) |-> normalize_question_obj(quiz.questions[j])]),
         LAMBDA res :
        IF \E j \in 1..Len(res) : res[j].raised
        THEN [raised |-> TRUE, quiz |-> quiz]
        ELSE [raised |-> FALSE,
              quiz |-> [quiz EXCEPT !.questions = list([j \in 1..Len(res) |-> res[j].q])]])

\* lines 123-125
load_quizzes(file) ==
    With(list([i \in 1..Len(file) |-> normalize_quiz_in_memory(file[i])]), LAMBDA res :
        [raised |-> \E i \in 1..Len(res) : res[i].raised,
         quizzes |-> list([i \in 1..Len(res) |-> res[i].quiz])])

\* lines 173-177: parsed when the text looks like MCQs, generated otherwise
found_questions(doc, reply) ==
    IF detect_mcq(doc)
    THEN With(parse_mcqs(doc), LAMBDA p : list([k \in 1..Len(p) |-> as_dict(p[k])]))
    ELSE generate_mcqs_via_openai(reply)

\* lines 173-181: the questions of an uploaded text, normalized
upload_questions(doc, reply) ==
    With(found_questions(doc, reply), LAMBDA found :
    With(list([k \in 1..Len(found) |-> normalize_question_obj(found[k])]), LAMBDA res :
        [raised |-> \E k \in 1..Len(res) : res[k].raised,
         mcqs |-> list([k \in 1..Len(res) |-> res[k].q])]))

\* seq[i] as Python indexes a list: [ok, s]; ok FALSE is an IndexError
list_item(seq, i) ==
    IF i >= 0 /\ i < Len(seq) THEN [ok |-> TRUE, s |-> seq[i + 1].s]
    ELSE IF i < 0 /\ i >= 0 - Len(seq) THEN [ok |-> TRUE, s |-> seq[Len(seq) + i + 1].s]
    ELSE [ok |-> FALSE, s |-> <<>>]

\* lines 293-300: the options of a question as the radio shows them, padded
\* in place with "N/A" to 4
shown_options(opts) ==
    list([j \in 1..(IF Len(opts) < NUM_OPTIONS THEN NUM_OPTIONS ELSE Len(opts)) |->
            IF j <= Len(opts) THEN opts[j] ELSE StrV(NA)])

\* lines 325-334: what is recorded for one question when each radio is on
\* choice, with the options the lookup of line 333 reads
answer_for_record(q, choice) ==
    With(shown_options(q.options.v), LAMBDA opts :
    With(IF q.correct_index.t = "int" THEN q.correct_index.n ELSE NONE, LAMBDA ci :
    With(IF ci = NONE THEN [ok |-> TRUE, s |-> <<>>] ELSE list_item(opts, ci), LAMBDA correct :
        [question |-> q.question,
         options |-> list([j \in 1..Len(opts) |-> opts[j].s]),
         selected_index |-> choice,
         selected_text |-> IF choice < Len(opts) THEN opts[choice + 1].s ELSE <<>>,
         correct_index |-> ci,
         raised |-> ~correct.ok,
         correct_text |-> correct.s])))

\* lines 311-345: the attempt of a submission
grade(quiz, choice) ==
    With(quiz.questions, LAMBDA qs :
    With(list([k \in 1..Len(qs) |-> answer_for_record(qs[k], choice)]), LAMBDA answers :
        [quiz_title |-> quiz.title,
         score |-> Cardinality({k \in 1..Len(qs) : answers[k].correct_index = choice}),
         total |-> Len(qs),
         answers |-> answers,
         raised |-> \E k \in 1..Len(qs) : answers[k].raised]))

(***************************************************************************)
(* Documents: uploaded texts are one or more question blocks, one per      *)
(* line group                                                              *)
(***************************************************************************)
\* "1. What is AI?\nA) Art\nB) Machine intelligence\nC) Food\nD) Music\nAns: B"
Block_Scenario1 ==
    <<"1","."," ","W","h","a","t"," ","i","s"," ","A","I","?","\n","A",")"," ","A","r",
      "t","\n","B",")"," ","M","a","c","h","i","n","e"," ","i","n","t","e","l","l","i",
      "g","e","n","c","e","\n","C",")"," ","F","o","o","d","\n","D",")"," ","M","u","s",
      "i","c","\n","A","n","s",":"," ","B">>
\* "2. what is ai?\nA) Art\nB) Bot\nAns: A"
Block_LowerDup ==
    <<"2","."," ","w","h","a","t"," ","i","s"," ","a","i","?","\n","A",")"," ","A","r",
      "t","\n","B",")"," ","B","o","t","\n","A","n","s",":"," ","A">>
\* "3. Who made it?\nA) Ada\nB) Bread.\nC) Cat\nD) Dog\nAns: C"
Block_DotOption ==
    <<"3","."," ","W","h","o"," ","m","a","d","e"," ","i","t","?","\n","A",")"," ","A",
      "d","a","\n","B",")"," ","B","r","e","a","d",".","\n","C",")"," ","C","a","t",
      "\n","D",")"," ","D","o","g","\n","A","n","s",":"," ","C">>
\* "4. Why?\nA) Art\nB) Bot\nC) Cat\nD) Dog\nAns: D"
Block_ShortStem ==
    <<"4","."," ","W","h","y","?","\n","A",")"," ","A","r","t","\n","B",")"," ","B","o",
      "t","\n","C",")"," ","C","a","t","\n","D",")"," ","D","o","g","\n","A","n","s",
      ":"," ","D">>
\* "5. Which is all?\nA) Art\nB) Bot\nC) Cat\nD) All of the above\nAns: All of the above"
Block_TextAnswer ==
    <<"5","."," ","W","h","i","c","h"," ","i","s"," ","a","l","l","?","\n","A",")"," ",
      "A","r","t","\n","B",")"," ","B","o","t","\n","C",")"," ","C","a","t","\n","D",
      ")"," ","A","l","l"," ","o","f"," ","t","h","e"," ","a","b","o","v","e","\n","A",
      "n","s",":"," ","A","l","l"," ","o","f"," ","t","h","e"," ","a","b","o","v","e">>
\* "6. Which city is big?\nA) Rome\nB) Paris is\nC) Oslo\nD) Bern"
Block_NoAnswer ==
    <<"6","."," ","W","h","i","c","h"," ","c","i","t","y"," ","i","s"," ","b","i","g",
      "?","\n","A",")"," ","R","o","m","e","\n","B",")"," ","P","a","r","i","s"," ","i",
      "s","\n","C",")"," ","O","s","l","o","\n","D",")"," ","B","e","r","n">>
\* "Which one is odd?\n7. C) seven\nA) six\nAns: A"
Block_LabelAfterNumber ==
    <<"W","h","i","c","h"," ","o","n","e"," ","i","s"," ","o","d","d","?","\n","7",".",
      " ","C",")"," ","s","e","v","e","n","\n","A",")"," ","s","i","x","\n","A","n","s",
      ":"," ","A">>
\* "Which one is even?\n7.C) seven\nA) six\nAns: A"
Block_LabelGlued ==
    <<"W","h","i","c","h"," ","o","n","e"," ","i","s"," ","e","v","e","n","?","\n","7",
      ".","C",")"," ","s","e","v","e","n","\n","A",")"," ","s","i","x","\n","A","n","s",
      ":"," ","A">>
\* "8. Which is red?\nA) Rose\nB) Sky\nAns: Rose\nKey: B"
Block_TwoMarkers ==
    <<"8","."," ","W","h","i","c","h"," ","i","s"," ","r","e","d","?","\n","A",")"," ",
      "R","o","s","e","\n","B",")"," ","S","k","y","\n","A","n","s",":"," ","R","o","s",
      "e","\n","K","e","y",":"," ","B">>
\* "9. Chapter One"
Block_Title ==
    <<"9","."," ","C","h","a","p","t","e","r"," ","O","n","e">>
\* "**Q10.** How is it?\r\nA) x\r\nB) y\r\nAnswer - b"
Block_Markup ==
    <<"*","*","Q","1","0",".","*","*"," ","H","o","w"," ","i","s"," ","i","t","?","\r",
      "\n","A",")"," ","x","\r","\n","B",")"," ","y","\r","\n","A","n","s","w","e","r",
      " ","-"," ","b">>
\* "11. Is transport key?\nA) Yes\nB) No\nC) Car\nD) Bus\nAns: A"
Block_Transport ==
    <<"1","1","."," ","I","s"," ","t","r","a","n","s","p","o","r","t"," ","k","e","y",
      "?","\n","A",")"," ","Y","e","s","\n","B",")"," ","N","o","\n","C",")"," ","C",
      "a","r","\n","D",")"," ","B","u","s","\n","A","n","s",":"," ","A">>
\* "12. Which is it?\nA) One\nB) Two\nAns: A\nKey - b"
Block_Restated ==
    <<"1","2","."," ","W","h","i","c","h"," ","i","s"," ","i","t","?","\n","A",")"," ",
      "O","n","e","\n","B",")"," ","T","w","o","\n","A","n","s",":"," ","A","\n","K",
      "e","y"," ","-"," ","b">>

ParseBlocks ==
    { Block_Scenario1,
      Block_LowerDup,
      Block_DotOption,
      Block_ShortStem,
      Block_TextAnswer,
      Block_NoAnswer,
      Block_LabelAfterNumber,
      Block_LabelGlued,
      Block_TwoMarkers,
      Block_Title,
      Block_Markup,
      Block_Transport,
      Block_Restated }

MaxBlocks == 2

NoText == [none |-> TRUE, s |-> <<>>]
Str(s) == [none |-> FALSE, s |-> s]

BlockSeqs == UNION {[1..k -> ParseBlocks] : k \in 1..MaxBlocks}
ParseInputs == {NoText, Str(<<>>)} \cup {Str(join_lines(bs)) : bs \in BlockSeqs}

(***************************************************************************)
(* Texts around the detector's length threshold: one indicator candidate   *)
(* and filler, of every length within PadWindow of the threshold; the      *)
(* candidate first, or last, or first with two trailing spaces             *)
(***************************************************************************)
\* "xx"
Core_Plain == <<"x","x">>
\* "Q7"
Core_QNumber == <<"Q","7">>
\* "Question 7"
Core_QuestionNumber == <<"Q","u","e","s","t","i","o","n"," ","7">>
\* "7."
Core_NumberDot == <<"7",".">>
\* "7)"
Core_NumberParen == <<"7",")">>
\* "B)"
Core_UpperLabel == <<"B",")">>
\* "b."
Core_LowerDot == <<"b",".">>
\* "C:"
Core_LabelColon == <<"C",":">>
\* "Answer:"
Core_Answer == <<"A","n","s","w","e","r",":">>
\* "Ans:"
Core_Ans == <<"A","n","s",":">>
\* "Key -"
Core_Key == <<"K","e","y"," ","-">>
DetectCores ==
    { Core_Plain,
      Core_QNumber,
      Core_QuestionNumber,
      Core_NumberDot,
      Core_NumberParen,
      Core_UpperLabel,
      Core_LowerDot,
      Core_LabelColon,
      Core_Answer,
      Core_Ans,
      Core_Key }

PadWindow == 3

Filler(k) == [i \in 1..k |-> "x"]
CoreFirst(core, len) == core \o <<" ">> \o Filler(len - Len(core) - 1)
CoreLast(core, len) == Filler(len - Len(core) - 1) \o <<" ">> \o core
CoreSpaced(core, len) == core \o <<" ">> \o Filler(len - Len(core) - 3) \o <<" ", " ">>

DetectLengths == (MIN_DETECT_LEN - PadWindow)..(MIN_DETECT_LEN + PadWindow)
DetectInputs ==
    UNION { {Str(CoreFirst(c, n)), Str(CoreLast(c, n)), Str(CoreSpaced(c, n))} :
            c \in DetectCores, n \in DetectLengths }

TextInputs == ParseInputs \cup DetectInputs

(***************************************************************************)
(* SpecText: detect_mcq and parse_mcqs applied to a text                   *)
(***************************************************************************)
NoRec == [question |-> <<>>, options |-> NoList, correct |-> Absent, correct_index |-> Absent]
NoNorm == [raised |-> FALSE, q |-> NoRec]

NoAttempt == [quiz_title |-> "", score |-> 0, total |-> 0, answers |-> <<>>, raised |-> FALSE]

AppIdle ==
    /\ quizFile = <<>>
    /\ quizzes = <<>>
    /\ mcqs = <<>>
    /\ attempt = NoAttempt

NormIdle ==
    /\ rec = NoRec
    /\ norm1 = NoNorm
    /\ norm2 = NoNorm

InitText ==
    /\ text \in TextInputs
    /\ is_mcq = FALSE
    /\ parsed = <<>>
    /\ pc = "input"
    /\ NormIdle
    /\ AppIdle

Detect ==
    /\ pc = "input"
    /\ is_mcq' = detect_mcq(text)
    /\ pc' = "detected"
    /\ UNCHANGED <<text, parsed, rec, norm1, norm2, quizFile, quizzes, mcqs, attempt>>

Parse ==
    /\ pc = "detected"
    /\ parsed' = parse_mcqs(text)
    /\ pc' = "parsed"
    /\ UNCHANGED <<text, is_mcq, rec, norm1, norm2, quizFile, quizzes, mcqs, attempt>>

NextText == Detect \/ Parse

SpecText == InitText /\ [][NextText]_vars

(***************************************************************************)
(* SpecNorm: normalize_question_obj applied to a question dict from the    *)
(* generator or from quizzes.json, and again to its own result             *)
(***************************************************************************)
\* ["Art", "Rome"]
Options_Two ==
    ListV(<< StrV(<<"A","r","t">>),
             StrV(<<"R","o","m","e">>) >>)
\* ["Art", "Rome", "Oslo", "Music"]
Options_Four ==
    ListV(<< StrV(<<"A","r","t">>),
             StrV(<<"R","o","m","e">>),
             StrV(<<"O","s","l","o">>),
             StrV(<<"M","u","s","i","c">>) >>)
\* ["Art", null, " Oslo  city ", "Music"]
Options_Untidy ==
    ListV(<< StrV(<<"A","r","t">>),
             Null,
             StrV(<<" ","O","s","l","o"," "," ","c","i","t","y"," ">>),
             StrV(<<"M","u","s","i","c">>) >>)
\* ["Art", "Rome", "Oslo", "Music", "Extra"]
Options_Five ==
    ListV(<< StrV(<<"A","r","t">>),
             StrV(<<"R","o","m","e">>),
             StrV(<<"O","s","l","o">>),
             StrV(<<"M","u","s","i","c">>),
             StrV(<<"E","x","t","r","a">>) >>)
OptionInputs ==
    { NoList, ListV(<<>>), Options_Two, Options_Four, Options_Untidy, Options_Five }
\* ["B", "c", "Oslo", "Music", "", "x"]
CorrectTexts ==
    { <<"B">>,
      <<"c">>,
      <<"O","s","l","o">>,
      <<"M","u","s","i","c">>,
      <<>>,
      <<"x">> }
\* ["2", "x"]
IndexTexts == { <<"2">>, <<"x">> }
\* "What is AI?"
AQuestion == <<"W","h","a","t"," ","i","s"," ","A","I","?">>

MaxSuppliedIndex == 5

CorrectInputs == {Absent, Null, IntV(2)} \cup {StrV(c) : c \in CorrectTexts}
IndexInputs ==
    {Absent, Null} \cup {IntV(n) : n \in -1..MaxSuppliedIndex} \cup {StrV(x) : x \in IndexTexts}

NormInputs ==
    { [question |-> AQuestion, options |-> o, correct |-> c, correct_index |-> i] :
        o \in OptionInputs, c \in CorrectInputs, i \in IndexInputs }

TextIdle ==
    /\ text = NoText
    /\ is_mcq = FALSE
    /\ parsed = <<>>

InitNorm ==
    /\ rec \in NormInputs
    /\ norm1 = NoNorm
    /\ norm2 = NoNorm
    /\ pc = "input"
    /\ TextIdle
    /\ AppIdle

Normalize ==
    /\ pc = "input"
    /\ norm1' = normalize_question_obj(rec)
    /\ pc' = IF norm1'.raised THEN "raised" ELSE "once"
    /\ UNCHANGED <<text, is_mcq, parsed, rec, norm2, quizFile, quizzes, mcqs, attempt>>

NormalizeAgain ==
    /\ pc = "once"
    /\ norm2' = normalize_question_obj(norm1.q)
    /\ pc' = IF norm2'.raised THEN "raised" ELSE "twice"
    /\ UNCHANGED <<text, is_mcq, parsed, rec, norm1, quizFile, quizzes, mcqs, attempt>>

NextNorm == Normalize \/ NormalizeAgain

SpecNorm == InitNorm /\ [][NextNorm]_vars

(***************************************************************************)
(* Spec: the application.  quizzes.json starts empty, or as an earlier     *)
(* version or an editor left it; the admin uploads texts, saves and        *)
(* deletes quizzes; students submit quizzes.                               *)
(***************************************************************************)
\* "The sun rises in the east; it sets in the west every single evening"
Doc_Prose ==
    <<"T","h","e"," ","s","u","n"," ","r","i","s","e","s"," ","i","n"," ","t","h","e",
      " ","e","a","s","t",";"," ","i","t"," ","s","e","t","s"," ","i","n"," ","t","h",
      "e"," ","w","e","s","t"," ","e","v","e","r","y"," ","s","i","n","g","l","e"," ",
      "e","v","e","n","i","n","g">>
\* "Which city?"
CityQuestion == <<"W","h","i","c","h"," ","c","i","t","y","?">>
\* " Which city? "
PaddedCityQuestion == <<" ","W","h","i","c","h"," ","c","i","t","y","?"," ">>
\* "Which river?"
RiverQuestion == <<"W","h","i","c","h"," ","r","i","v","e","r","?">>

MaxQuizzes == 2

\* questions as earlier versions stored them: no correct_index, two options,
\* five options, an index out of range, the answer as text
LegacyQuestions ==
    << [question |-> CityQuestion, options |-> Options_Two,
        correct |-> StrV(<<"B">>), correct_index |-> Absent],
       [question |-> RiverQuestion, options |-> Options_Five,
        correct |-> StrV(<<"O","s","l","o">>), correct_index |-> IntV(7)] >>
\* a question whose correct is null
BrokenQuestions ==
    << [question |-> CityQuestion, options |-> Options_Four,
        correct |-> Null, correct_index |-> IntV(1)] >>

StoredFiles ==
    { <<>>,
      << [title |-> "Old", questions |-> LegacyQuestions] >>,
      << [title |-> "Broken", questions |-> BrokenQuestions] >> }

UploadDocs ==
    { Str(join_lines(<<Block_LowerDup, Block_Title>>)),
      Str(Doc_Prose),
      Str(<<" ", "\n">>) }

\* what the generation service may answer
GeneratedReplies ==
    { [ok |-> FALSE, questions |-> <<>>],
      [ok |-> TRUE, questions |->
         << [question |-> StrV(PaddedCityQuestion), options |-> Options_Two,
             correct |-> StrV(<<"b">>)],
            [question |-> StrV(RiverQuestion), options |-> Options_Five,
             correct |-> Null] >>],
      [ok |-> TRUE, questions |->
         << [question |-> Null, options |-> Options_Four, correct |-> StrV(<<"C">>)] >>] }

Titles == {"", "Quiz A"}

Init ==
    /\ quizFile \in StoredFiles
    /\ quizzes = <<>>
    /\ mcqs = <<>>
    /\ attempt = NoAttempt
    /\ text = NoText
    /\ is_mcq = FALSE
    /\ parsed = <<>>
    /\ pc = "start"
    /\ NormIdle

Running == pc \in {"ready", "uploaded", "graded"}

\* the first run of the script: lines 123-125
Open ==
    /\ pc = "start"
    /\ \E l \in {load_quizzes(quizFile)} :
           /\ quizzes' = IF l.raised THEN quizzes ELSE l.quizzes
           /\ pc' = IF l.raised THEN "crashed" ELSE "ready"
    /\ UNCHANGED <<text, is_mcq, parsed, rec, norm1, norm2, quizFile, mcqs, attempt>>

\* lines 164-201 without the save button
Upload(doc, reply) ==
    /\ Running
    /\ \E l \in {load_quizzes(quizFile)}, u \in {upload_questions(doc, reply)},
          blank \in {strip(doc.s) = <<>>} :
           /\ ~l.raised
           /\ quizzes' = l.quizzes
           /\ text' = doc
           /\ is_mcq' = IF blank THEN FALSE ELSE detect_mcq(doc)
           /\ mcqs' = IF blank \/ u.raised THEN <<>> ELSE u.mcqs
           /\ pc' = IF ~blank /\ u.raised THEN "crashed" ELSE "uploaded"
    /\ UNCHANGED <<parsed, rec, norm1, norm2, quizFile, attempt>>

\* lines 164-201 with the save button: the run computes the questions of the
\* uploaded text again, and saves them under a title that is not blank
Save(title, reply) ==
    /\ pc = "uploaded"
    /\ strip(text.s) /= <<>>
    /\ \E l \in {load_quizzes(quizFile)}, u \in {upload_questions(text, reply)} :
           /\ ~l.raised
           /\ ~u.raised
           /\ Len(l.quizzes) < MaxQuizzes
           /\ mcqs' = u.mcqs
           /\ IF u.mcqs /= <<>> /\ title /= ""
              THEN /\ quizzes' = Append(l.quizzes, [title |-> title, questions |-> u.mcqs])
                   /\ quizFile' = quizzes'
              ELSE quizzes' = l.quizzes /\ UNCHANGED quizFile
    /\ UNCHANGED <<text, is_mcq, parsed, rec, norm1, norm2, attempt, pc>>

\* lines 216-220
Delete(title) ==
    /\ Running
    /\ \E l \in {load_quizzes(quizFile)} :
       LET Other(q) == q.title /= title
       IN  /\ ~l.raised
           /\ \E i \in 1..Len(l.quizzes) : l.quizzes[i].title = title
           /\ quizzes' = SelectSeq(l.quizzes, Other)
           /\ quizFile' = quizzes'
    /\ pc' = "ready"
    /\ UNCHANGED <<text, is_mcq, parsed, rec, norm1, norm2, mcqs, attempt>>

\* lines 251-264: the file is written when a quiz in memory changed
NormalizeSaved ==
    /\ Running
    /\ \E l \in {load_quizzes(quizFile)} : \E again \in {load_quizzes(l.quizzes)} :
           /\ ~l.raised
           /\ ~again.raised
           /\ quizzes' = again.quizzes
           /\ quizFile' = IF again.quizzes /= l.quizzes THEN again.quizzes ELSE quizFile
    /\ UNCHANGED <<text, is_mcq, parsed, rec, norm1, norm2, mcqs, attempt, pc>>

\* lines 269-347: a student with a name and an email picks the quiz of a title,
\* sets every radio on choice and submits
Submit(title, choice) ==
    /\ Running
    /\ \E l \in {load_quizzes(quizFile)} :
           /\ ~l.raised
           /\ \E first \in 1..Len(l.quizzes) :
               /\ l.quizzes[first].title = title
               /\ \A k \in 1..(first - 1) : l.quizzes[k].title /= title
               /\ l.quizzes[first].questions /= <<>>
               /\ \E n \in {normalize_quiz_in_memory(l.quizzes[first])} :
                   /\ attempt' = IF n.raised THEN attempt ELSE grade(n.quiz, choice)
                   /\ pc' = IF n.raised \/ attempt'.raised THEN "crashed" ELSE "graded"
           /\ quizzes' = l.quizzes
    /\ UNCHANGED <<text, is_mcq, parsed, rec, norm1, norm2, quizFile, mcqs>>

Next ==
    \/ Open
    \/ \E doc \in UploadDocs, reply \in GeneratedReplies : Upload(doc, reply)
    \/ \E title \in Titles, reply \in GeneratedReplies : Save(title, reply)
    \/ \E title \in Titles \cup {"Old"} : Delete(title)
    \/ NormalizeSaved
    \/ \E title \in Titles \cup {"Old"}, choice \in 0..MAX_INDEX : Submit(title, choice)

Spec == Init /\ [][Next]_vars

(***************************************************************************)
(* Properties                                                              *)
(***************************************************************************)
Letters == { <<"A">>, <<"B">>, <<"C">>, <<"D">> }

\* C1: every record parse_mcqs returns has exactly 4 options, a correct_index
\* in 0..3 and a correct letter among A-D that is chr('A' + correct_index)
C1_RecordInvariant ==
    pc = "parsed" =>
        \A k \in 1..Len(parsed) :
            /\ Len(parsed[k].options) = 4
            /\ parsed[k].correct_index \in 0..3
            /\ parsed[k].correct \in Letters
            /\ parsed[k].correct = chr65(parsed[k].correct_index)

\* two records are returned: the first answers with its fourth option, the
\* second had two options and was padded
C1_Witness ==
    /\ pc = "parsed"
    /\ Len(parsed) = 2
    /\ parsed[1].correct_index = 3
    /\ parsed[2].options[3] = NA
    /\ parsed[2].options[4] = NA
    /\ parsed[2].options[2] /= NA

\* C2: when the normalizer returns, the result has exactly 4 options, a
\* correct_index in 0..3, a correct letter among A-D, and the index is the
\* letter's distance from 'A'
C2_LetterAndIndexInSync ==
    pc /= "input" /\ ~norm1.raised =>
        /\ Len(norm1.q.options.v) = 4
        /\ norm1.q.correct_index.t = "int"
        /\ norm1.q.correct_index.n \in 0..3
        /\ norm1.q.correct.t = "str"
        /\ norm1.q.correct.s \in Letters
        /\ norm1.q.correct.s = chr65(norm1.q.correct_index.n)

\* C3: normalizing a normalized record returns, and changes none of question,
\* options, correct and correct_index
C3_Idempotent ==
    /\ ~norm2.raised
    /\ pc = "twice" =>
        /\ norm2.q.question = norm1.q.question
        /\ norm2.q.options = norm1.q.options
        /\ norm2.q.correct = norm1.q.correct
        /\ norm2.q.correct_index = norm1.q.correct_index

\* a record with untidy options, the answer as text and no index was
\* normalized twice, and the first pass changed it
C3_Witness ==
    /\ pc = "twice"
    /\ rec.options = Options_Untidy
    /\ rec.correct = StrV(<<"O","s","l","o">>)
    /\ rec.correct_index = Absent
    /\ norm1.q /= rec
    /\ norm1.q.options.v[3] = StrV(<<"O","s","l","o"," ","c","i","t","y">>)
    /\ norm1.q.correct_index = IntV(1)
    /\ norm2.q = norm1.q

\* C4: no two records of one parse_mcqs result have question stems that are
\* equal ignoring case
C4_NoDuplicateStems ==
    pc = "parsed" =>
        \A i, j \in 1..Len(parsed) :
            i < j => lower(parsed[i].question) /= lower(parsed[j].question)

\* C5: the normalizer returns a record on every loosely typed input, it
\* never raises
C5_NeverRaises ==
    ~norm1.raised /\ ~norm2.raised

\* C6: parse_mcqs of the empty string or None is the empty list, and
\* detect_mcq is false for every text shorter than 50 characters, None included
C6_Boundary ==
    /\ pc = "parsed" /\ (text.none \/ text.s = <<>>) => parsed = <<>>
    /\ pc \in {"detected", "parsed"} /\ (text.none \/ Len(text.s) < 50) => is_mcq = FALSE

\* a text of 49 characters that holds an indicator was judged not to be MCQs
C6_Witness ==
    /\ pc = "detected"
    /\ ~text.none
    /\ Len(text.s) = 49
    /\ any_mcq_pattern(text.s)
    /\ is_mcq = FALSE

\* the block "<n>. <stem>", "A) o1", "B) o2", "C) o3", "D) o4", "Ans: <L>"
WellFormedBlock(w) ==
    w.number \o <<".", " ">> \o w.stem
    \o <<"\n", "A", ")", " ">> \o w.options[1]
    \o <<"\n", "B", ")", " ">> \o w.options[2]
    \o <<"\n", "C", ")", " ">> \o w.options[3]
    \o <<"\n", "D", ")", " ">> \o w.options[4]
    \o <<"\n", "A", "n", "s", ":", " ">> \o w.letter

\* the well-formed blocks among the documents: Block_Scenario1,
\* Block_DotOption, Block_ShortStem and Block_Transport
WellFormedCases ==
    {
      [number |-> <<"1">>,
       stem |-> <<"W","h","a","t"," ","i","s"," ","A","I","?">>,
       options |-> << <<"A","r","t">>,
                     <<"M","a","c","h","i","n","e"," ","i","n","t","e","l","l","i","g","e","n","c","e">>,
                     <<"F","o","o","d">>,
                     <<"M","u","s","i","c">> >>,
       letter |-> <<"B">>],
      [number |-> <<"3">>,
       stem |-> <<"W","h","o"," ","m","a","d","e"," ","i","t","?">>,
       options |-> << <<"A","d","a">>,
                     <<"B","r","e","a","d",".">>,
                     <<"C","a","t">>,
                     <<"D","o","g">> >>,
       letter |-> <<"C">>],
      [number |-> <<"4">>,
       stem |-> <<"W","h","y","?">>,
       options |-> << <<"A","r","t">>,
                     <<"B","o","t">>,
                     <<"C","a","t">>,
                     <<"D","o","g">> >>,
       letter |-> <<"D">>],
      [number |-> <<"1","1">>,
       stem |-> <<"I","s"," ","t","r","a","n","s","p","o","r","t"," ","k","e","y","?">>,
       options |-> << <<"Y","e","s">>,
                     <<"N","o">>,
                     <<"C","a","r">>,
                     <<"B","u","s">> >>,
       letter |-> <<"A">>] }

\* C7: a well-formed block parses to exactly one record: the stem without
\* its number, the four options in order, the letter L and the index L - 'A'
C7_WellFormedBlock ==
    pc = "parsed" =>
        \A w \in WellFormedCases :
            text.s = WellFormedBlock(w) =>
                parsed = << [question |-> w.stem,
                             options |-> w.options,
                             correct |-> w.letter,
                             correct_index |-> ord65(w.letter[1])] >>

\* "what is ai?": the stem of Block_LowerDup, the block with two options
TwoOptionStem == <<"w","h","a","t"," ","i","s"," ","a","i","?">>

\* C8: every question graded in the student panel has exactly 4 options and
\* a correct_index in 0..3, so options[correct_index] is found; a question
\* parsed from a block with two options has "N/A" at indices 2 and 3
C8_GradingInBounds ==
    /\ ~attempt.raised
    /\ \A k \in 1..Len(attempt.answers) :
        /\ Len(attempt.answers[k].options) = 4
        /\ attempt.answers[k].correct_index \in 0..3
        /\ ~attempt.answers[k].raised
        /\ attempt.answers[k].correct_text =
               attempt.answers[k].options[attempt.answers[k].correct_index + 1]
        /\ attempt.answers[k].question = TwoOptionStem =>
               /\ attempt.answers[k].options[3] = NA
               /\ attempt.answers[k].options[4] = NA

\* a student submitted the saved quiz parsed from the two-option block with
\* the radio on index 2, and the question was graded
C8_Witness ==
    /\ pc = "graded"
    /\ attempt.quiz_title = "Quiz A"
    /\ attempt.total = 1
    /\ attempt.answers[1].question = TwoOptionStem
    /\ attempt.answers[1].selected_index = 2
    /\ attempt.answers[1].selected_text = NA
    /\ attempt.answers[1].correct_index = 0
    /\ attempt.score = 0

\* the indicators as the specification lists them, ignoring case: Q<digits>,
\* Question <digits>, <digits>. or <digits>)
spec_question_marker(s) ==
    \E i \in 0..Len(s) :
        \/ lower_char(At(s, i)) = "q" /\ IsDigit(At(s, SkipWs(s, i + 1)))
        \/ /\ OccursAtI(<<"q","u","e","s","t","i","o","n">>, s, i)
           /\ IsDigit(At(s, SkipWs(s, i + 8)))
        \/ IsDigit(At(s, i)) /\ At(s, SkipDigits(s, i)) \in {".", ")"}

\* an A-D letter followed by ")", "." or ":"
spec_option_marker(s) ==
    \E i \in 0..Len(s) :
        lower_char(At(s, i)) \in {"a", "b", "c", "d"} /\ At(s, i + 1) \in {")", ".", ":"}

\* Answer, Ans or Key followed by a separator
spec_answer_marker(s) ==
    \E i \in 0..Len(s), k \in 1..Len(AnswerWords) :
        /\ OccursAtI(AnswerWords[k], s, i)
        /\ At(s, SkipWs(s, i + Len(AnswerWords[k]))) \in {":", "-"}

\* C9: for a text of at least 50 characters, detect_mcq is true exactly when
\* an indicator occurs within the first 8000 characters
C9_DetectIffIndicator ==
    pc \in {"detected", "parsed"} /\ ~text.none /\ Len(text.s) >= 50 =>
        (is_mcq <=> \/ spec_question_marker(Slice(text.s, 0, 8000))
                    \/ spec_option_marker(Slice(text.s, 0, 8000))
                    \/ spec_answer_marker(Slice(text.s, 0, 8000)))

\* C10: a supplied correct_index within 0..3 is the correct_index of the
\* normalized record, whatever correct says
C10_SuppliedIndexAuthoritative ==
    /\ pc /= "input"
    /\ ~norm1.raised
    /\ rec.correct_index.t = "int"
    /\ rec.correct_index.n \in 0..3
    => norm1.q.correct_index = rec.correct_index

\* whether the free text c contains, or is contained in, the option o,
\* ignoring case
spec_text_matches(c, o) ==
    contains(lower(o.s), lower(c)) \/ contains(lower(c), lower(o.s))

\* C11: without a supplied index, a correct value that is free text and not
\* a bare letter gives the index of the first option that contains it or is
\* contained in it, ignoring case, whatever letters the text holds
C11_FreeTextMatchesOption ==
    /\ pc /= "input"
    /\ ~norm1.raised
    /\ rec.correct_index.t = "absent"
    /\ rec.correct.t = "str"
    /\ Len(strip(rec.correct.s)) > 1
    => \A j \in 1..Len(norm1.q.options.v) :
           /\ spec_text_matches(strip(rec.correct.s), norm1.q.options.v[j])
           /\ \A k \in 1..(j - 1) :
                  ~spec_text_matches(strip(rec.correct.s), norm1.q.options.v[k])
           => norm1.q.correct_index = IntV(j - 1)

\* the blocks parse_mcqs makes records of, in order
blocks_of(t) ==
    LET Long(b) == ~block_too_short(b)
    IN  SelectSeq(segment_blocks(full_text(t.s)), Long)

\* the position after an optional ":" or "-" with optional whitespace on
\* both sides, from j
spec_after_separator(s, j) ==
    SkipWs(s, IF At(s, SkipWs(s, j)) \in {":", "-"} THEN SkipWs(s, j) + 1 ELSE SkipWs(s, j))

\* the letters of the letter-form answer markers that start at i: Answer, Ans
\* or Key, the optional separator, then a single letter A-D (either case)
spec_marker_letters(s, i) ==
    { upper_char(At(s, spec_after_separator(s, i + Len(AnswerWords[a])))) :
        a \in { b \in 1..Len(AnswerWords) :
                  /\ OccursAtI(AnswerWords[b], s, i)
                  /\ lower_char(At(s, spec_after_separator(s, i + Len(AnswerWords[b]))))
                         \in {"a", "b", "c", "d"}
                  /\ ~IsWordChar(At(s, spec_after_separator(s, i + Len(AnswerWords[b])) + 1)) } }

\* where the letter-form answer markers of s start
spec_marker_starts(s) == { i \in 0..Len(s) : spec_marker_letters(s, i) /= {} }

\* C12: the correct letter of a block with letter-form answer markers is
\* the letter of the last of them, whatever text-form markers the block has
C12_LastLetterMarkerWins ==
    pc = "parsed" /\ Len(parsed) = Len(blocks_of(text)) =>
        \A k \in 1..Len(parsed) :
            \A i \in spec_marker_starts(blocks_of(text)[k]) :
                (\A m \in spec_marker_starts(blocks_of(text)[k]) : m <= i) =>
                    parsed[k].correct \in
                        { <<c>> : c \in spec_marker_letters(blocks_of(text)[k], i) }

\* two blocks were parsed: in the first a text-form marker is followed by a
\* letter-form one, in the second the letter A is restated as b
C12_Witness ==
    /\ pc = "parsed"
    /\ text.s = join_lines(<<Block_TwoMarkers, Block_Restated>>)
    /\ Len(parsed) = 2
    /\ Cardinality(spec_marker_starts(blocks_of(text)[1])) = 1
    /\ Cardinality(spec_marker_starts(blocks_of(text)[2])) = 2
    /\ parsed[1].correct = <<"B">>
    /\ parsed[2].correct = <<"B">>
    /\ parsed[2].correct_index = 1

\* C13: a block with no letter-form answer marker, no text-form answer that
\* matches an option and no option reading "all of the above" gets the
\* correct letter A and the correct_index 0, whatever its options are
C13_DefaultsToA ==
    pc = "parsed" /\ Len(parsed) = Len(blocks_of(text)) =>
        \A k \in 1..Len(parsed) :
            /\ spec_marker_starts(blocks_of(text)[k]) = {}
            /\ text_answer_index(blocks_of(text)[k], parsed[k].options) = 0
            /\ \A j \in 1..Len(parsed[k].options) :
                   ~contains(lower(parsed[k].options[j]), AllOfTheAbove)
            => parsed[k].correct = <<"A">> /\ parsed[k].correct_index = 0

\* where the option label starts in a line made of a number, "." or ")",
\* optional whitespace and an option label; -1 for any other line
spec_label_after_number(line) ==
    IF /\ IsDigit(At(line, 0))
       /\ At(line, SkipDigits(line, 0)) \in {".", ")"}
       /\ At(line, SkipWs(line, SkipDigits(line, 0) + 1)) \in {"A", "B", "C", "D"}
       /\ At(line, SkipWs(line, SkipDigits(line, 0) + 1) + 1) \in {")", ".", ":"}
    THEN SkipWs(line, SkipDigits(line, 0) + 1)
    ELSE -1

\* C14: a numbered line whose number is followed by an option label is no
\* question boundary: no record has the rest of that line as its question,
\* and when the line before it ends in "?", that line is a record's question
C14_LabelledNumberIsNoBoundary ==
    pc = "parsed" /\ ~text.none =>
        \A j \in 2..Len(split_lines(text.s)) :
            spec_label_after_number(split_lines(text.s)[j]) /= -1 =>
                /\ \A k \in 1..Len(parsed) :
                       parsed[k].question /=
                           strip(Slice(split_lines(text.s)[j],
                                       spec_label_after_number(split_lines(text.s)[j]),
                                       Len(split_lines(text.s)[j])))
                /\ At(split_lines(text.s)[j - 1], Len(split_lines(text.s)[j - 1]) - 1) = "?" =>
                       \E k \in 1..Len(parsed) :
                           parsed[k].question = strip_number(split_lines(text.s)[j - 1])

\* the number of words of s: the runs of characters that are no whitespace
spec_word_count(s) ==
    Cardinality({ i \in 1..Len(s) : ~IsSpace(s[i]) /\ (i = 1 \/ IsSpace(s[i - 1])) })

\* C15: no record of parse_mcqs has a question of fewer than 3 words, and
\* none has four "N/A" options
C15_NoShortStemNoPlaceholders ==
    pc = "parsed" =>
        \A k \in 1..Len(parsed) :
            /\ spec_word_count(parsed[k].question) >= 3
            /\ \E j \in 1..Len(parsed[k].options) : parsed[k].options[j] /= NA

====
